---- MODULE Spec2Model ----
(***************************************************************************)
(* Model of the task tracker: the zustand store of Tasks and Groups in its *)
(* two revisions (Task.groupId, "field-owning"; Group.taskIds,             *)
(* "list-owning"), the useApiSync bridge with its debounced PUT, and the   *)
(* /api/groups persistence routes.                                         *)
(*                                                                         *)
(* Optional values (groupId?: string, value?: string, upgrade?: boolean)   *)
(* are sequences of length at most one: << >> is undefined, <<x>> is x.    *)
(* Strings that the code trims are sequences of characters.                *)
(***************************************************************************)
EXTENDS Integers, Sequences, FiniteSets, TLC

VARIABLES
    tasks,      \* State.tasks
    groups,     \* State.groups
    nextId,     \* the next identifier crypto.randomUUID() hands out
    lastOp,     \* history: the last store operation, whether it threw, what it notified,
                \* for a delete the id it was given, and (pre) what the snapshot
                \* taken before a delete or a membership change reads afterwards
    refsValid,  \* history: every call so far passed references naming entities then present
    boardId,    \* window.location.pathname.slice(1)
    activated,  \* useApiSync has mounted
    isLoading,  \* useApiSync's isLoading
    get,        \* the GET of loadGroup: its phase and the row the server answered with
    timer,      \* debounce's pending timeout: the time left and the arguments it captured
    inflight,   \* the PUT requests dispatched and not yet handled by the server,
                \* each with the snapshot it serializes
    remote,     \* the row of the groups table for the board id
    remote0,    \* history: the row at the start of the session
    userActed,  \* history: the user performed a store operation
    netOk,      \* history: no request or response was lost so far
    timerEarly, \* history: the pending timeout was armed before the load completed
    lastPut,    \* history: the last PUT dispatched
    burst,      \* history: the changes since the last gap of a full debounce delay
    wrote,      \* history: the snapshot whose PUT wrote the blob of the remote row
    fetchedFrom, \* history: the value of wrote when the server answered the GET
    groupsTable, \* the groups table of the server: for every id no row or one row
    revision,   \* which revision of the server is running
    lastCall    \* history: the last request the server handled, its response,
                \* and the table before it

storeVars == <<tasks, groups, nextId, lastOp, refsValid>>
syncVars == <<boardId, activated, isLoading, get, timer, inflight, remote,
              remote0, userActed, netOk, timerEarly, lastPut, burst,
              wrote, fetchedFrom>>
serverVars == <<groupsTable, revision, lastCall>>
vars == <<storeVars, syncVars, serverVars>>

----------------------------------------------------------------------------
(* Bounds *)

MaxIds == 4
MaxTasks == 2
MaxGroups == 2
MaxOrder == 3
MaxListTasks == 3
MaxListGroups == 1
MaxMenuTasks == 2
MaxMenuGroups == 2
MaxSyncTasks == 2
MaxSyncIds == 3
MaxInflight == 2
MaxBurstGaps == 2
TickMs == 100

----------------------------------------------------------------------------
(* Values *)

Undefined == << >>
Some(x) == <<x>>

\* A caller can only hold identifiers that were handed out: those of present
\* entities and the stale ones of deleted entities.
Ids == 1..(nextId - 1)
OptIds == {Undefined} \cup {Some(i) : i \in Ids}

\* String.prototype.trim on a sequence of characters
RECURSIVE TrimStart(_)
TrimStart(s) ==
    IF s # << >> /\ Head(s) = " " THEN TrimStart(Tail(s)) ELSE s

RECURSIVE TrimEnd(_)
TrimEnd(s) ==
    IF s # << >> /\ s[Len(s)] = " " THEN TrimEnd(SubSeq(s, 1, Len(s) - 1)) ELSE s

trim(s) == TrimEnd(TrimStart(s))

\* The snapshot of the store: its tasks and groups
Snapshot(t, g) == [tasks |-> t, groups |-> g]
State == Snapshot(tasks, groups)

\* Array.prototype.findIndex((x) => x.id === id): 0-based, -1 when absent
findIndex(seq, id) ==
    IF \E i \in 1..Len(seq) : seq[i].id = id
    THEN (CHOOSE i \in 1..Len(seq) :
            /\ seq[i].id = id
            /\ \A j \in 1..(i - 1) : seq[j].id # id) - 1
    ELSE -1

\* Array.prototype.filter((x) => x.id !== id)
filterOutId(seq, id) == SelectSeq(seq, LAMBDA x : x.id # id)

\* Object spread { ...old, ...new }: the keys of both, new's values first
spread(old, new) ==
    [f \in DOMAIN old \cup DOMAIN new |-> IF f \in DOMAIN new THEN new[f] ELSE old[f]]

\* Reading a property of an object: undefined when the key is absent
field(obj, f) == IF f \in DOMAIN obj THEN obj[f] ELSE Undefined

\* zustand setState: Object.assign({}, state, partial)
setState(st, partial) ==
    [tasks  |-> IF "tasks" \in DOMAIN partial THEN partial.tasks ELSE st.tasks,
     groups |-> IF "groups" \in DOMAIN partial THEN partial.groups ELSE st.groups]

\* What an operation leaves: the store, whether it threw, and the snapshots
\* its set calls handed to the listeners, in order.
Returned(st, notified) == [state |-> st, threw |-> FALSE, notified |-> notified]
Thrown(st, notified) == [state |-> st, threw |-> TRUE, notified |-> notified]

----------------------------------------------------------------------------
(* The store, field-owning revision (Task.groupId) *)

\* { ...task, id: crypto.randomUUID(), groupId: groupId }
newTask(task, id, groupId) ==
    spread(task, [id |-> id, groupId |-> groupId])

\* Mutant: the identifier is derived from the length of the list.
addTask_IdFromLength(st, task, groupId, id) ==
    IF trim(task.title) = << >>
    THEN Returned(st, << >>)
    ELSE LET next == setState(st, [tasks |-> Append(st.tasks,
                        newTask(task, Len(st.tasks) + 1, groupId))])
         IN  Returned(next, <<next>>)

\* Mutant: the stored title is the trimmed title.
addTask_Trims(st, task, groupId, id) ==
    IF trim(task.title) = << >>
    THEN Returned(st, << >>)
    ELSE LET next == setState(st, [tasks |-> Append(st.tasks,
                        newTask([task EXCEPT !.title = trim(@)], id, groupId))])
         IN  Returned(next, <<next>>)

addTask(st, task, groupId, id) ==
    IF trim(task.title) = << >>
    THEN Returned(st, << >>)
    ELSE LET next == setState(st, [tasks |-> Append(st.tasks, newTask(task, id, groupId))])
         IN  Returned(next, <<next>>)

\* Mutant: the Task is replaced by the supplied fields instead of merged.
updateTask_Replaces(st, id, fields) ==
    LET taskToUpdateIndex == findIndex(st.tasks, id) IN
    IF taskToUpdateIndex = -1
    THEN Thrown(st, << >>)
    ELSE LET i == taskToUpdateIndex + 1
             newTasks == [st.tasks EXCEPT ![i] = spread([id |-> id], fields)]
             next == setState(st, [tasks |-> newTasks])
         IN  Returned(next, <<next>>)

updateTask(st, id, fields) ==
    LET taskToUpdateIndex == findIndex(st.tasks, id) IN
    IF taskToUpdateIndex = -1
    THEN Thrown(st, << >>)
    ELSE LET i == taskToUpdateIndex + 1
             newTasks == [st.tasks EXCEPT ![i] = spread(@, fields)]
             next == setState(st, [tasks |-> newTasks])
         IN  Returned(next, <<next>>)

\* Mutant: the last Task is moved into the place of the deleted one.
deleteTask_SwapRemove(st, id) ==
    LET taskToDeleteIndex == findIndex(st.tasks, id)
        last == Len(st.tasks)
        newTasks == SubSeq([st.tasks EXCEPT ![taskToDeleteIndex + 1] = st.tasks[last]],
                           1, last - 1)
    IN
    IF taskToDeleteIndex = -1
    THEN Thrown(st, << >>)
    ELSE LET next == setState(st, [tasks |-> newTasks])
         IN  Returned(next, <<next>>)

\* Mutant: an id that is not in the store is ignored.
deleteTask_Silent(st, id) ==
    LET taskToDeleteIndex == findIndex(st.tasks, id)
        newTasks == filterOutId(st.tasks, id)
    IN
    IF taskToDeleteIndex = -1
    THEN Returned(st, << >>)
    ELSE IF Len(newTasks) # Len(st.tasks) - 1
    THEN Thrown(st, << >>)
    ELSE LET next == setState(st, [tasks |-> newTasks])
         IN  Returned(next, <<next>>)

deleteTask(st, id) ==
    LET taskToDeleteIndex == findIndex(st.tasks, id)
        newTasks == filterOutId(st.tasks, id)
    IN
    IF taskToDeleteIndex = -1
    THEN Thrown(st, << >>)
    ELSE IF Len(newTasks) # Len(st.tasks) - 1
    THEN Thrown(st, << >>)
    ELSE LET next == setState(st, [tasks |-> newTasks])
         IN  Returned(next, <<next>>)

\* Mutant: the identifier is the place the Group takes in the list.
addGroup_IdFromLength(st, name, id) ==
    LET newGroup == [id |-> Len(st.groups) + 1, name |-> name]
        next == setState(st, [groups |-> Append(st.groups, newGroup)])
    IN  Returned(next, <<next>>)

addGroup(st, name, id) ==
    LET newGroup == [id |-> id, name |-> name]
        next == setState(st, [groups |-> Append(st.groups, newGroup)])
    IN  Returned(next, <<next>>)

updateGroup(st, id, fields) ==
    LET groupToUpdateIndex == findIndex(st.groups, id) IN
    IF groupToUpdateIndex = -1
    THEN Thrown(st, << >>)
    ELSE LET i == groupToUpdateIndex + 1
             newGroups == [st.groups EXCEPT ![i] = spread(@, fields)]
             next == setState(st, [groups |-> newGroups])
         IN  Returned(next, <<next>>)

\* Mutant: the cascade ungroups every Task, not only those of the Group.
setTaskGroup_WholeList(st, taskId, groupId) ==
    IF findIndex(st.tasks, taskId) = -1
    THEN Thrown(st, << >>)
    ELSE LET newTasks == [i \in 1..Len(st.tasks) |->
                            spread(st.tasks[i], [groupId |-> groupId])]
             next == setState(st, [tasks |-> newTasks])
         IN  Returned(next, <<next>>)

setTaskGroup(st, taskId, groupId) ==
    LET taskToUpdateIndex == findIndex(st.tasks, taskId) IN
    IF taskToUpdateIndex = -1
    THEN Thrown(st, << >>)
    ELSE LET i == taskToUpdateIndex + 1
             newTasks == [st.tasks EXCEPT ![i] = spread(@, [groupId |-> groupId])]
             next == setState(st, [tasks |-> newTasks])
         IN  Returned(next, <<next>>)

\* tasksToUngroup.forEach((task) => get().setTaskGroup(task.id, undefined)):
\* every call is a set of its own on the store as it then stands.
RECURSIVE ungroupEach(_, _, _)
ungroupEach(st, tasksToUngroup, notified) ==
    IF tasksToUngroup = << >>
    THEN Returned(st, notified)
    ELSE LET r == setTaskGroup(st, Head(tasksToUngroup).id, Undefined) IN
         IF r.threw
         THEN Thrown(st, notified)
         ELSE ungroupEach(r.state, Tail(tasksToUngroup), notified \o r.notified)

\* Mutant: deleteGroup without the cascade over the Tasks of the Group.
deleteGroup_NoCascade(st, id) ==
    LET newGroups == filterOutId(st.groups, id) IN
    IF findIndex(st.groups, id) = -1
    THEN Thrown(st, << >>)
    ELSE LET next == setState(st, [groups |-> newGroups])
         IN  Returned(next, <<next>>)

deleteGroup(st, id) ==
    LET groupToDeleteIndex == findIndex(st.groups, id)
        newGroups == filterOutId(st.groups, id)
        tasksToUngroup == SelectSeq(st.tasks, LAMBDA task : field(task, "groupId") = Some(id))
    IN
    IF groupToDeleteIndex = -1
    THEN Thrown(st, << >>)
    ELSE IF Len(newGroups) # Len(st.groups) - 1
    THEN Thrown(st, << >>)
    ELSE LET inner == ungroupEach(st, tasksToUngroup, << >>) IN
         IF inner.threw
         THEN inner
         ELSE LET next == setState(inner.state, [groups |-> newGroups])
              IN  Returned(next, Append(inner.notified, next))

----------------------------------------------------------------------------
(* The store, list-owning revision (Group.taskIds).  updateTask and         *)
(* updateGroup are the same code in both revisions.                         *)

addTaskL(st, task, id) ==
    IF trim(task.title) = << >>
    THEN Returned(st, << >>)
    ELSE LET next == setState(st, [tasks |-> Append(st.tasks, spread(task, [id |-> id]))])
         IN  Returned(next, <<next>>)

\* group.taskIds.filter((taskId) => taskId !== id)
withoutTask(taskIds, id) == SelectSeq(taskIds, LAMBDA taskId : taskId # id)

\* groupsToDelete.forEach((group) => set((state) => ({ groups:
\* state.groups.filter((g) => g.id !== group.id) }))): every call is a set of
\* its own on the store as it then stands.
RECURSIVE deleteEach(_, _, _)
deleteEach(st, groupsToDelete, notified) ==
    IF groupsToDelete = << >>
    THEN Returned(st, notified)
    ELSE LET next == setState(st, [groups |-> filterOutId(st.groups, Head(groupsToDelete).id)])
         IN  deleteEach(next, Tail(groupsToDelete), Append(notified, next))

\* Mutant: the membership lists are rebuilt in reverse order.
RECURSIVE reversed(_)
reversed(seq) == IF seq = << >> THEN << >> ELSE Append(reversed(Tail(seq)), Head(seq))

deleteTaskL_Reorders(st, id) ==
    LET newTasks == filterOutId(st.tasks, id)
        newGroups == [i \in 1..Len(st.groups) |->
            spread(st.groups[i], [taskIds |-> reversed(withoutTask(st.groups[i].taskIds, id))])]
    IN
    IF findIndex(st.tasks, id) = -1
    THEN Thrown(st, << >>)
    ELSE LET next == setState(st, [tasks |-> newTasks, groups |-> newGroups])
         IN  Returned(next, <<next>>)

\* The nested sets remove the emptied groups from the store, and then the
\* outer set's result { tasks: newTasks, groups: newGroups } is merged over
\* the store: newGroups still lists the groups the nested sets removed.
\* Mutant: the outer set returns the Groups that have members left, so every
\* Group without members is gone.
deleteTaskL_DropsEmptyGroups(st, id) ==
    LET taskToDeleteIndex == findIndex(st.tasks, id)
        newTasks == filterOutId(st.tasks, id)
        newGroups == [i \in 1..Len(st.groups) |->
            spread(st.groups[i], [taskIds |-> withoutTask(st.groups[i].taskIds, id)])]
        groupsToDelete == SelectSeq(newGroups, LAMBDA group : Len(group.taskIds) = 0)
        kept == SelectSeq(newGroups, LAMBDA group : Len(group.taskIds) # 0)
    IN
    IF taskToDeleteIndex = -1
    THEN Thrown(st, << >>)
    ELSE IF Len(newTasks) # Len(st.tasks) - 1
    THEN Thrown(st, << >>)
    ELSE LET inner == deleteEach(st, groupsToDelete, << >>)
             next == setState(inner.state, [tasks |-> newTasks, groups |-> kept])
         IN  Returned(next, Append(inner.notified, next))

deleteTaskL(st, id) ==
    LET taskToDeleteIndex == findIndex(st.tasks, id)
        newTasks == filterOutId(st.tasks, id)
        newGroups == [i \in 1..Len(st.groups) |->
            spread(st.groups[i], [taskIds |-> withoutTask(st.groups[i].taskIds, id)])]
        groupsToDelete == SelectSeq(newGroups, LAMBDA group : Len(group.taskIds) = 0)
    IN
    IF taskToDeleteIndex = -1
    THEN Thrown(st, << >>)
    ELSE IF Len(newTasks) # Len(st.tasks) - 1
    THEN Thrown(st, << >>)
    ELSE LET inner == deleteEach(st, groupsToDelete, << >>)
             next == setState(inner.state, [tasks |-> newTasks, groups |-> newGroups])
         IN  Returned(next, Append(inner.notified, next))

addGroupL(st, name, id) ==
    LET newGroup == [id |-> id, name |-> name, taskIds |-> << >>]
        next == setState(st, [groups |-> Append(st.groups, newGroup)])
    IN  Returned(next, <<next>>)

deleteGroupL(st, id) ==
    LET groupToDeleteIndex == findIndex(st.groups, id)
        newGroups == filterOutId(st.groups, id)
    IN
    IF groupToDeleteIndex = -1
    THEN Thrown(st, << >>)
    ELSE IF Len(newGroups) # Len(st.groups) - 1
    THEN Thrown(st, << >>)
    ELSE LET next == setState(st, [groups |-> newGroups])
         IN  Returned(next, <<next>>)

\* Array.prototype.includes
includes(seq, x) == \E i \in 1..Len(seq) : seq[i] = x

\* Mutant: the id is appended whether or not the Group lists it.
addTaskToGroup_NoIncludesTest(st, taskId, groupId) ==
    LET groupToUpdateIndex == findIndex(st.groups, groupId) IN
    IF groupToUpdateIndex = -1
    THEN Thrown(st, << >>)
    ELSE LET i == groupToUpdateIndex + 1
             newGroups == [st.groups EXCEPT ![i].taskIds = Append(@, taskId)]
             next == setState(st, [groups |-> newGroups])
         IN  Returned(next, <<next>>)

\* newGroups is a copy of the array, its elements are the store's own Group
\* objects: the assignment to .taskIds writes the Group the store already holds.
addTaskToGroup(st, taskId, groupId) ==
    LET groupToUpdateIndex == findIndex(st.groups, groupId) IN
    IF groupToUpdateIndex = -1
    THEN Thrown(st, << >>)
    ELSE LET i == groupToUpdateIndex + 1
             newGroups ==
                IF ~includes(st.groups[i].taskIds, taskId)
                THEN [st.groups EXCEPT ![i].taskIds = Append(@, taskId)]
                ELSE st.groups
             next == setState(st, [groups |-> newGroups])
         IN  Returned(next, <<next>>)

\* Mutant: taskIds.splice(taskIds.indexOf(taskId), 1), which removes the last
\* id when taskId is not listed.
removeTaskFromGroup_Splice(st, taskId, groupId) ==
    LET groupToUpdateIndex == findIndex(st.groups, groupId) IN
    IF groupToUpdateIndex = -1
    THEN Thrown(st, << >>)
    ELSE LET i == groupToUpdateIndex + 1
             old == st.groups[i].taskIds
             spliced == IF includes(old, taskId)
                        THEN withoutTask(old, taskId)
                        ELSE SubSeq(old, 1, Len(old) - 1)
             newGroups == [st.groups EXCEPT ![i].taskIds = spliced]
             next == setState(st, [groups |-> newGroups])
         IN  Returned(next, <<next>>)

removeTaskFromGroup(st, taskId, groupId) ==
    LET groupToUpdateIndex == findIndex(st.groups, groupId) IN
    IF groupToUpdateIndex = -1
    THEN Thrown(st, << >>)
    ELSE LET i == groupToUpdateIndex + 1
             newGroups == [st.groups EXCEPT ![i].taskIds = withoutTask(@, taskId)]
             next == setState(st, [groups |-> newGroups])
         IN  Returned(next, <<next>>)

\* newGroups[groupToUpdateIndex].taskIds = ... in addTaskToGroup and
\* removeTaskFromGroup: newGroups is a new array, but its elements are the
\* Group objects that st.groups holds, so the assignment is seen through a
\* snapshot taken before the call.  What such a snapshot reads after the call
\* whose result is r:
readsAfterAssignment(st, r) ==
    IF r.threw THEN st ELSE [st EXCEPT !.groups = r.state.groups]

----------------------------------------------------------------------------
(* The sync bridge and the /api/groups routes *)

API_KEY == "12345"

\* process.env.API_KEY of the server, taken to be the key the client was built with
ServerApiKey == "12345"

\* debounce(putGroup, 1000)
DebounceMs == 1000

\* The optional properties of Task: JSON.stringify leaves out a property whose
\* value is undefined.
OptionalKeys == {"groupId", "value", "upgrade"}

\* Mutant: the title is left out as well.
dropUndefined_NoTitle(obj) ==
    [f \in {k \in DOMAIN obj : k # "title" /\ ~(k \in OptionalKeys /\ obj[k] = Undefined)}
        |-> obj[f]]

dropUndefined(obj) ==
    [f \in {k \in DOMAIN obj : ~(k \in OptionalKeys /\ obj[k] = Undefined)} |-> obj[f]]

\* JSON.stringify(store): the functions of the store are left out, tasks and
\* groups are written with the properties that have a value.
JSONstringify(st) ==
    [tasks  |-> [i \in 1..Len(st.tasks) |-> dropUndefined(st.tasks[i])],
     groups |-> [i \in 1..Len(st.groups) |-> dropUndefined(st.groups[i])]]

\* JSON.parse of a blob written by JSON.stringify: the objects as written
JSONparse(blob) == [tasks |-> blob.tasks, groups |-> blob.groups]

\* The groups table holds for the board id no row (<< >>) or one row, whose
\* data column is NULL (<< >>) or a blob.
NoRow == << >>
Row(data) == <<[data |-> data]>>

\* routes["/api/groups"].GET with an id: SELECT * FROM groups WHERE id
routeGET(table, apikey) ==
    IF apikey # ServerApiKey
    THEN [status |-> 401, row |-> NoRow]
    ELSE [status |-> 200, row |-> table]

\* routes["/api/groups"].PUT: UPDATE groups SET data WHERE id
routePUT(table, body) ==
    IF body.apikey # ServerApiKey
    THEN table
    ELSE IF table = NoRow THEN NoRow ELSE Row(Some(body.data))

\* getGroup: null (<< >>) when the response is not the JSON of a row with
\* data, or when anything throws.
getGroup(response) ==
    IF response.status # 200 THEN Undefined
    ELSE IF response.row = NoRow THEN Undefined
    ELSE IF response.row[1].data = Undefined THEN Undefined
    ELSE Some(JSONparse(response.row[1].data[1]))

\* putGroup's request body
putGroup(id, body) == [apikey |-> API_KEY, id |-> id, data |-> JSONstringify(body)]

\* Mutant: the snapshot's tasks are added to those of the store.
initialize_Merges(st, data) ==
    LET next == setState(st, [tasks |-> st.tasks \o data.tasks, groups |-> data.groups])
    IN  Returned(next, <<next>>)

\* initialize: set(() => data)
initialize(st, data) ==
    LET next == setState(st, data) IN Returned(next, <<next>>)

\* Mutant: a call while a timeout is pending leaves that timeout in place.
debounce_KeepsPending(timeoutId, args) ==
    IF timeoutId # << >>
    THEN timeoutId
    ELSE <<[remaining |-> DebounceMs, args |-> args]>>

\* Mutant: a call while a timeout is pending restarts the delay but keeps the
\* arguments of the call that set it.
debounce_KeepsArgs(timeoutId, args) ==
    IF timeoutId # << >>
    THEN <<[remaining |-> DebounceMs, args |-> timeoutId[1].args]>>
    ELSE <<[remaining |-> DebounceMs, args |-> args]>>

\* Mutant: a call while a timeout is pending replaces its arguments and leaves
\* its deadline.
debounce_KeepsDeadline(timeoutId, args) ==
    IF timeoutId # << >>
    THEN <<[remaining |-> timeoutId[1].remaining, args |-> args]>>
    ELSE <<[remaining |-> DebounceMs, args |-> args]>>

\* The function debounce returns: clearTimeout(timeoutId) and a new timeout of
\* delay ms that captures the arguments of this call.
debounce(timeoutId, args) ==
    <<[remaining |-> DebounceMs, args |-> args]>>

----------------------------------------------------------------------------
(* The persistence service.  Two revisions of the server are modelled:      *)
(* "part_002", whose PUT is an UPDATE and which has a DELETE, and           *)
(* "part_000" (src/server.ts has the same handlers), whose PUT is an        *)
(* INSERT.  A request carries its credential under the name the revision    *)
(* reads; created_at and updated_at are left out of the rows.               *)

Revisions == {"part_000", "part_002"}

\* A response: the status, the row or rows in its body (<< >> when the body
\* holds no stored data), and the table the handler leaves.
Response(status, body, tbl) == [status |-> status, body |-> body, table |-> tbl]

\* The body of Response.json(row): nothing when there is no row
jsonOf(row) == IF row = NoRow THEN << >> ELSE <<row>>

\* z.object({...}).parse(await req.json()): throws unless every key of the
\* schema is a string of the body.
parses(req, keys) == \A k \in keys : req[k] # Undefined

\* Mutant: INSERT OR REPLACE, the row of an existing id is overwritten.
insert_OrReplace(tbl, id, data) ==
    [threw |-> FALSE, table |-> [tbl EXCEPT ![id] = Row(data)]]

\* INSERT INTO groups (id, data, ...): a second row for a PRIMARY KEY throws.
insert(tbl, id, data) ==
    IF tbl[id] # NoRow
    THEN [threw |-> TRUE, table |-> tbl]
    ELSE [threw |-> FALSE, table |-> [tbl EXCEPT ![id] = Row(data)]]

\* GET /api/groups: the credential is a query parameter, null when missing.
apiGroupsGET(tbl, req) ==
    LET apikey == IF req.credential = Undefined THEN "" ELSE req.credential[1] IN
    IF req.id # Undefined
    THEN LET r == routeGET(tbl[req.id[1]], apikey) IN
         Response(r.status, jsonOf(r.row), tbl)
    ELSE IF apikey # ServerApiKey
    THEN Response(401, << >>, tbl)
    ELSE Response(200, <<tbl>>, tbl)

\* PUT /api/groups of part_002: UPDATE groups SET data WHERE id
apiGroupsPUT(tbl, req) ==
    IF ~parses(req, {"id", "data", "credential"})
    THEN Response(500, << >>, tbl)
    ELSE IF req.credential[1] # ServerApiKey
    THEN Response(401, << >>, tbl)
    ELSE LET id == req.id[1]
             row == routePUT(tbl[id], [apikey |-> req.credential[1], id |-> id,
                                       data |-> req.data[1]])
         IN  Response(201, jsonOf(row), [tbl EXCEPT ![id] = row])

\* PUT /api/groups of part_000 and src/server.ts: INSERT INTO groups (id, data)
apiGroupsPUT_Insert(tbl, req) ==
    IF ~parses(req, {"id", "data", "credential"})
    THEN Response(500, << >>, tbl)
    ELSE IF req.credential[1] # ServerApiKey
    THEN Response(401, << >>, tbl)
    ELSE LET r == insert(tbl, req.id[1], req.data) IN
         IF r.threw
         THEN Response(500, << >>, tbl)
         ELSE Response(201, jsonOf(r.table[req.id[1]]), r.table)

\* POST /api/groups: INSERT INTO groups (id), data stays NULL
apiGroupsPOST(tbl, req) ==
    IF ~parses(req, {"id", "credential"})
    THEN Response(500, << >>, tbl)
    ELSE IF req.credential[1] # ServerApiKey
    THEN Response(401, << >>, tbl)
    ELSE LET r == insert(tbl, req.id[1], Undefined) IN
         IF r.threw
         THEN Response(500, << >>, tbl)
         ELSE Response(201, jsonOf(r.table[req.id[1]]), r.table)

\* DELETE /api/groups (part_002 only): DELETE FROM groups WHERE id
apiGroupsDELETE(tbl, req) ==
    IF ~parses(req, {"id", "credential"})
    THEN Response(500, << >>, tbl)
    ELSE IF req.credential[1] # ServerApiKey
    THEN Response(401, << >>, tbl)
    ELSE Response(204, << >>, [tbl EXCEPT ![req.id[1]] = NoRow])

\* GET /api/groups/:id: no credential is read.
apiGroupsIdGET(tbl, req) ==
    IF req.id = Undefined \/ tbl[req.id[1]] = NoRow
    THEN Response(404, << >>, tbl)
    ELSE Response(200, <<tbl[req.id[1]]>>, tbl)

\* The dispatch of a request to the handler of its route and method
handle(rev, tbl, req) ==
    IF req.route = "/api/groups/:id"
    THEN IF req.method = "GET" THEN apiGroupsIdGET(tbl, req)
         ELSE IF rev = "part_002" THEN Response(405, << >>, tbl)
         ELSE Response(404, << >>, tbl)
    ELSE IF req.method = "GET" THEN apiGroupsGET(tbl, req)
    ELSE IF req.method = "PUT"
         THEN IF rev = "part_002" THEN apiGroupsPUT(tbl, req)
              ELSE apiGroupsPUT_Insert(tbl, req)
    ELSE IF req.method = "POST" THEN apiGroupsPOST(tbl, req)
    ELSE IF rev = "part_002" THEN apiGroupsDELETE(tbl, req)
    ELSE Response(404, << >>, tbl)

----------------------------------------------------------------------------
(* Inputs *)

Titles == { << >>, <<" ">>, <<" ", "c">> }
Names == { <<"h">> }
TaskInputs == { [title |-> t] : t \in Titles }
TaskUpdates == { [title |-> << >>] } \cup { [groupId |-> g] : g \in OptIds }
TaskUpdatesL == { [title |-> << >>] }
GroupUpdates == { [name |-> << >>] }

BoardIds == {"a", "b"}
Blobs == {"x", "y"}
Routes == {"/api/groups", "/api/groups/:id"}
Methods == {"GET", "PUT", "POST", "DELETE"}
Optional(S) == {Undefined} \cup {Some(x) : x \in S}
Requests ==
    [route : Routes, method : Methods, credential : Optional({ServerApiKey, "bad"}),
     id : Optional(BoardIds), data : Optional(Blobs)]

----------------------------------------------------------------------------
(* Actions of the field-owning store *)

NoOp == [op |-> "none", threw |-> FALSE, notified |-> << >>,
         id |-> Undefined, pre |-> Undefined]

hasId(seq, id) == \E i \in 1..Len(seq) : seq[i].id = id

\* A group reference a caller passes is valid when it is undefined or names a
\* Group of the store at the time of the call.
ValidGroupRef(g) == g = Undefined \/ hasId(groups, g[1])

Commit(op, r, valid) ==
    /\ tasks' = r.state.tasks
    /\ groups' = r.state.groups
    /\ lastOp' = [op |-> op, threw |-> r.threw, notified |-> r.notified,
                  id |-> Undefined, pre |-> Undefined]
    /\ refsValid' = (refsValid /\ valid)

CommitDelete(op, id, r) ==
    /\ tasks' = r.state.tasks
    /\ groups' = r.state.groups
    /\ lastOp' = [op |-> op, threw |-> r.threw, notified |-> r.notified,
                  id |-> Some(id), pre |-> Some(State)]
    /\ UNCHANGED refsValid

AddTaskUpTo(max, task, groupId) ==
    /\ nextId <= MaxIds
    /\ Len(tasks) < max
    /\ LET r == addTask(State, task, groupId, nextId) IN
        /\ Commit("addTask", r, ValidGroupRef(groupId))
        /\ nextId' = IF r.notified = << >> THEN nextId ELSE nextId + 1
    /\ UNCHANGED <<syncVars, serverVars>>

AddTask(task, groupId) == AddTaskUpTo(MaxTasks, task, groupId)

UpdateTask(id, fields) ==
    /\ Commit("updateTask", updateTask(State, id, fields),
              "groupId" \in DOMAIN fields => ValidGroupRef(fields.groupId))
    /\ UNCHANGED nextId
    /\ UNCHANGED <<syncVars, serverVars>>

DeleteTask(id) ==
    /\ CommitDelete("deleteTask", id, deleteTask(State, id))
    /\ UNCHANGED nextId
    /\ UNCHANGED <<syncVars, serverVars>>

AddGroupUpTo(max, name) ==
    /\ nextId <= MaxIds
    /\ Len(groups) < max
    /\ Commit("addGroup", addGroup(State, name, nextId), TRUE)
    /\ nextId' = nextId + 1
    /\ UNCHANGED <<syncVars, serverVars>>

AddGroup(name) == AddGroupUpTo(MaxGroups, name)

UpdateGroup(id, fields) ==
    /\ Commit("updateGroup", updateGroup(State, id, fields), TRUE)
    /\ UNCHANGED nextId
    /\ UNCHANGED <<syncVars, serverVars>>

DeleteGroup(id) ==
    /\ CommitDelete("deleteGroup", id, deleteGroup(State, id))
    /\ UNCHANGED nextId
    /\ UNCHANGED <<syncVars, serverVars>>

SetTaskGroup(taskId, groupId) ==
    /\ Commit("setTaskGroup", setTaskGroup(State, taskId, groupId),
              ValidGroupRef(groupId))
    /\ UNCHANGED nextId
    /\ UNCHANGED <<syncVars, serverVars>>

\* The bridge before useApiSync has mounted
Unmounted ==
    /\ activated = FALSE
    /\ isLoading = TRUE
    /\ get = [phase |-> "idle", response |-> Undefined]
    /\ timer = << >>
    /\ inflight = {}
    /\ remote0 = remote
    /\ userActed = FALSE
    /\ netOk = TRUE
    /\ timerEarly = FALSE
    /\ lastPut = << >>
    /\ burst = << >>
    /\ fetchedFrom = Undefined

NoCall == [req |-> Undefined, status |-> 0, body |-> << >>, pre |-> Undefined]

\* The server while no request is sent to it in the behaviours of a store or
\* of the bridge
ServerIdle ==
    /\ groupsTable = [id \in BoardIds |-> NoRow]
    /\ revision = "part_002"
    /\ lastCall = NoCall

Init ==
    /\ tasks = << >>
    /\ groups = << >>
    /\ nextId = 1
    /\ lastOp = NoOp
    /\ refsValid = TRUE
    /\ boardId = ""
    /\ remote = NoRow
    /\ wrote = Undefined
    /\ Unmounted
    /\ ServerIdle

Next ==
    \/ \E task \in TaskInputs, groupId \in OptIds : AddTask(task, groupId)
    \/ \E id \in Ids, fields \in TaskUpdates : UpdateTask(id, fields)
    \/ \E id \in Ids : DeleteTask(id)
    \/ \E name \in Names : AddGroup(name)
    \/ \E id \in Ids, fields \in GroupUpdates : UpdateGroup(id, fields)
    \/ \E id \in Ids : DeleteGroup(id)
    \/ \E taskId \in Ids, groupId \in OptIds : SetTaskGroup(taskId, groupId)

Spec == Init /\ [][Next]_vars

\* The same store with room for MaxOrder Tasks and MaxOrder Groups, so that a
\* delete can leave two elements behind.
NextOrder ==
    \/ \E task \in TaskInputs, groupId \in OptIds : AddTaskUpTo(MaxOrder, task, groupId)
    \/ \E id \in Ids, fields \in TaskUpdates : UpdateTask(id, fields)
    \/ \E id \in Ids : DeleteTask(id)
    \/ \E name \in Names : AddGroupUpTo(MaxOrder, name)
    \/ \E id \in Ids, fields \in GroupUpdates : UpdateGroup(id, fields)
    \/ \E id \in Ids : DeleteGroup(id)
    \/ \E taskId \in Ids, groupId \in OptIds : SetTaskGroup(taskId, groupId)

SpecOrder == Init /\ [][NextOrder]_vars

----------------------------------------------------------------------------
(* Actions of the list-owning store *)

AddTaskLUpTo(max, task) ==
    /\ nextId <= MaxIds
    /\ Len(tasks) < max
    /\ LET r == addTaskL(State, task, nextId) IN
        /\ Commit("addTask", r, TRUE)
        /\ nextId' = IF r.notified = << >> THEN nextId ELSE nextId + 1
    /\ UNCHANGED <<syncVars, serverVars>>

AddTaskL(task) == AddTaskLUpTo(MaxListTasks, task)

UpdateTaskL(id, fields) ==
    /\ Commit("updateTask", updateTask(State, id, fields), TRUE)
    /\ UNCHANGED nextId
    /\ UNCHANGED <<syncVars, serverVars>>

DeleteTaskL(id) ==
    /\ CommitDelete("deleteTask", id, deleteTaskL(State, id))
    /\ UNCHANGED nextId
    /\ UNCHANGED <<syncVars, serverVars>>

AddGroupLUpTo(max, name) ==
    /\ nextId <= MaxIds
    /\ Len(groups) < max
    /\ Commit("addGroup", addGroupL(State, name, nextId), TRUE)
    /\ nextId' = nextId + 1
    /\ UNCHANGED <<syncVars, serverVars>>

AddGroupL(name) == AddGroupLUpTo(MaxListGroups, name)

UpdateGroupL(id, fields) ==
    /\ Commit("updateGroup", updateGroup(State, id, fields), TRUE)
    /\ UNCHANGED nextId
    /\ UNCHANGED <<syncVars, serverVars>>

DeleteGroupL(id) ==
    /\ CommitDelete("deleteGroup", id, deleteGroupL(State, id))
    /\ UNCHANGED nextId
    /\ UNCHANGED <<syncVars, serverVars>>

\* history: pre is the snapshot a listener kept from before the operation, as
\* it reads once the operation has run.
CommitAssigning(op, r, valid) ==
    /\ tasks' = r.state.tasks
    /\ groups' = r.state.groups
    /\ lastOp' = [op |-> op, threw |-> r.threw, notified |-> r.notified,
                  id |-> Undefined, pre |-> Some(readsAfterAssignment(State, r))]
    /\ refsValid' = (refsValid /\ valid)

AddTaskToGroup(taskId, groupId) ==
    /\ CommitAssigning("addTaskToGroup", addTaskToGroup(State, taskId, groupId),
                       hasId(tasks, taskId))
    /\ UNCHANGED nextId
    /\ UNCHANGED <<syncVars, serverVars>>

RemoveTaskFromGroup(taskId, groupId) ==
    /\ CommitAssigning("removeTaskFromGroup",
                       removeTaskFromGroup(State, taskId, groupId), TRUE)
    /\ UNCHANGED nextId
    /\ UNCHANGED <<syncVars, serverVars>>

NextList ==
    \/ \E task \in TaskInputs : AddTaskL(task)
    \/ \E id \in Ids, fields \in TaskUpdatesL : UpdateTaskL(id, fields)
    \/ \E id \in Ids : DeleteTaskL(id)
    \/ \E name \in Names : AddGroupL(name)
    \/ \E id \in Ids, fields \in GroupUpdates : UpdateGroupL(id, fields)
    \/ \E id \in Ids : DeleteGroupL(id)
    \/ \E taskId \in Ids, groupId \in Ids : AddTaskToGroup(taskId, groupId)
    \/ \E taskId \in Ids, groupId \in Ids : RemoveTaskFromGroup(taskId, groupId)

SpecList == Init /\ [][NextList]_vars

\* The Groups that list the Task
groupsOf(taskId) ==
    {groups[i].id : i \in {j \in 1..Len(groups) : includes(groups[j].taskIds, taskId)}}

\* The calls the list-owning interface makes.  TaskList renders a TaskItem for
\* every Task under each Group that lists it, and one without a Group for a
\* Task no Group lists; the menu of a TaskItem offers "Ungroup" for the Group
\* it is rendered under, "Add to" and the delete button for every other
\* Group, the form that adds a Group, and the delete of the Task.
NextMenu ==
    \/ \E task \in TaskInputs : AddTaskLUpTo(MaxMenuTasks, task)
    \/ \E id \in Ids : hasId(tasks, id) /\ DeleteTaskL(id)
    \/ \E name \in Names : tasks # << >> /\ AddGroupLUpTo(MaxMenuGroups, name)
    \/ \E taskId \in Ids, id \in Ids :
            /\ hasId(tasks, taskId)
            /\ hasId(groups, id)
            /\ groupsOf(taskId) # {id}
            /\ DeleteGroupL(id)
    \/ \E taskId \in Ids, groupId \in Ids :
            /\ hasId(tasks, taskId)
            /\ hasId(groups, groupId)
            /\ groupsOf(taskId) # {groupId}
            /\ AddTaskToGroup(taskId, groupId)
    \/ \E taskId \in Ids, groupId \in Ids :
            /\ hasId(tasks, taskId)
            /\ groupId \in groupsOf(taskId)
            /\ RemoveTaskFromGroup(taskId, groupId)

SpecMenu == Init /\ [][NextMenu]_vars

----------------------------------------------------------------------------
(* Actions of the sync bridge, the user behind the rendered UI, the clock    *)
(* and the server.  Time is counted in ms and passes in steps of TickMs; a   *)
(* timeout callback runs when its delay has elapsed, before anything else    *)
(* the client does at that instant.                                          *)

TimerDue == timer # << >> /\ timer[1].remaining = 0

Min(a, b) == IF a < b THEN a ELSE b

\* Mutant: the effect calls debouncedPutGroup whatever the board id is.
StoreObserved_NoGuard(st, early) ==
    /\ timer' = debounce(timer, [id |-> boardId, body |-> st])
    /\ timerEarly' = early

\* useEffect(() => { if (groupId) debouncedPutGroup(groupId, store) }, [store, groupId])
\* run for the store st, early telling whether the load is still outstanding.
StoreObserved(st, early) ==
    IF boardId # ""
    THEN /\ timer' = debounce(timer, [id |-> boardId, body |-> st])
         /\ timerEarly' = early
    ELSE UNCHANGED <<timer, timerEarly>>

\* history: a change made by the user opens a burst or continues the one whose
\* last change is less than DebounceMs old.
BurstOpen == burst # << >> /\ burst[1].age < DebounceMs

Changed ==
    burst' = IF BurstOpen
             THEN <<[burst[1] EXCEPT !.gaps = Append(@, burst[1].age), !.age = 0]>>
             ELSE <<[gaps |-> << >>, age |-> 0, puts |-> << >>]>>

\* Mutant: the mount runs the load effect only.
UseApiSyncMount_LoadOnly ==
    /\ ~activated
    /\ activated' = TRUE
    /\ isLoading' = TRUE
    /\ get' = IF boardId # ""
              THEN [phase |-> "sent", response |-> Undefined]
              ELSE get
    /\ UNCHANGED <<timer, timerEarly>>
    /\ UNCHANGED <<storeVars, boardId, inflight, remote, remote0, userActed, netOk,
                   lastPut, burst>>
    /\ UNCHANGED <<wrote, fetchedFrom>>
    /\ UNCHANGED serverVars

\* The first render of App: both effects of useApiSync run.
UseApiSyncMount ==
    /\ ~activated
    /\ activated' = TRUE
    /\ isLoading' = TRUE
    /\ get' = IF boardId # ""
              THEN [phase |-> "sent", response |-> Undefined]
              ELSE get
    /\ StoreObserved(State, TRUE)
    /\ UNCHANGED <<storeVars, boardId, inflight, remote, remote0, userActed, netOk,
                   lastPut, burst>>
    /\ UNCHANGED <<wrote, fetchedFrom>>
    /\ UNCHANGED serverVars

\* The server handles the GET.
ServerGET ==
    /\ get.phase = "sent"
    /\ get' = [phase |-> "replied", response |-> Some(routeGET(remote, API_KEY))]
    /\ fetchedFrom' = wrote
    /\ UNCHANGED wrote
    /\ UNCHANGED <<storeVars, boardId, activated, isLoading, timer, inflight, remote,
                   remote0, userActed, netOk, timerEarly, lastPut, burst>>
    /\ UNCHANGED serverVars

\* Mutant: loading ends only when there is data.
LoadGroupResumes_NoFinally(data) ==
    /\ ~TimerDue
    /\ get' = [phase |-> "done", response |-> Undefined]
    /\ isLoading' = (data = Undefined)
    /\ IF data # Undefined
       THEN LET r == initialize(State, data[1]) IN
            /\ Commit("initialize", r, TRUE)
            /\ StoreObserved(r.state, FALSE)
       ELSE UNCHANGED <<tasks, groups, lastOp, refsValid, timer, timerEarly>>
    /\ UNCHANGED <<nextId, boardId, activated, inflight, remote, remote0, userActed,
                   lastPut, burst>>
    /\ UNCHANGED <<wrote, fetchedFrom>>
    /\ UNCHANGED serverVars

\* loadGroup after await getGroup(groupId): if (data) initialize(data), and
\* finally setIsLoading(false).
LoadGroupResumes(data) ==
    /\ ~TimerDue
    /\ get' = [phase |-> "done", response |-> Undefined]
    /\ isLoading' = FALSE
    /\ IF data # Undefined
       THEN LET r == initialize(State, data[1]) IN
            /\ Commit("initialize", r, TRUE)
            /\ StoreObserved(r.state, FALSE)
       ELSE UNCHANGED <<tasks, groups, lastOp, refsValid, timer, timerEarly>>
    /\ UNCHANGED <<nextId, boardId, activated, inflight, remote, remote0, userActed,
                   lastPut, burst>>
    /\ UNCHANGED <<wrote, fetchedFrom>>
    /\ UNCHANGED serverVars

\* The response of the GET reaches the client.
GetGroupReturns ==
    /\ get.phase = "replied"
    /\ LoadGroupResumes(getGroup(get.response[1]))
    /\ UNCHANGED netOk

\* fetch rejects: getGroup catches and returns null.
GetGroupFetchFails ==
    /\ get.phase \in {"sent", "replied"}
    /\ LoadGroupResumes(Undefined)
    /\ netOk' = FALSE

\* The UI is rendered once isLoading is false.  A burst is followed for at most
\* MaxBurstGaps + 1 changes.
UserCan ==
    /\ activated
    /\ ~isLoading
    /\ ~TimerDue
    /\ BurstOpen => Len(burst[1].gaps) < MaxBurstGaps

UserAddTask(task) ==
    /\ UserCan
    /\ nextId <= MaxSyncIds
    /\ Len(tasks) < MaxSyncTasks
    /\ LET r == addTask(State, task, Undefined, nextId) IN
        /\ Commit("addTask", r, TRUE)
        /\ StoreObserved(r.state, FALSE)
    /\ nextId' = nextId + 1
    /\ userActed' = TRUE
    /\ Changed
    /\ UNCHANGED <<boardId, activated, isLoading, get, inflight, remote, remote0,
                   netOk, lastPut>>
    /\ UNCHANGED <<wrote, fetchedFrom>>
    /\ UNCHANGED serverVars

UserDeleteTask(id) ==
    /\ UserCan
    /\ hasId(tasks, id)
    /\ LET r == deleteTask(State, id) IN
        /\ CommitDelete("deleteTask", id, r)
        /\ StoreObserved(r.state, FALSE)
    /\ userActed' = TRUE
    /\ Changed
    /\ UNCHANGED <<nextId, boardId, activated, isLoading, get, inflight, remote,
                   remote0, netOk, lastPut>>
    /\ UNCHANGED <<wrote, fetchedFrom>>
    /\ UNCHANGED serverVars

\* The time that passes in one step: TickMs, or what is left until the
\* deadline of the pending timeout when that is sooner.
Elapse == IF timer = << >> THEN TickMs ELSE Min(TickMs, timer[1].remaining)

Tick ==
    /\ activated
    /\ boardId # ""
    /\ ~TimerDue
    /\ timer' = IF timer = << >>
                THEN timer
                ELSE <<[timer[1] EXCEPT !.remaining = @ - Elapse]>>
    /\ burst' = IF burst = << >>
                THEN burst
                ELSE <<[burst[1] EXCEPT !.age = Min(@ + Elapse, DebounceMs)]>>
    /\ UNCHANGED <<storeVars, boardId, activated, isLoading, get, inflight, remote,
                   remote0, userActed, netOk, timerEarly, lastPut>>
    /\ UNCHANGED <<wrote, fetchedFrom>>
    /\ UNCHANGED serverVars

\* The timeout callback: func(...args), that is putGroup(groupId, store) with
\* the arguments captured when the timeout was set.
DebounceTimerFires ==
    /\ TimerDue
    /\ Cardinality(inflight) < MaxInflight
    /\ inflight' = inflight \cup
                    {[request |-> putGroup(timer[1].args.id, timer[1].args.body),
                      snapshot |-> timer[1].args.body]}
    /\ timer' = << >>
    /\ lastPut' = <<[data |-> JSONstringify(timer[1].args.body),
                     early |-> timerEarly,
                     loading |-> isLoading]>>
    /\ burst' = IF burst = << >>
                THEN burst
                ELSE <<[burst[1] EXCEPT !.puts = Append(@, burst[1].age)]>>
    /\ UNCHANGED <<storeVars, boardId, activated, isLoading, get, remote, remote0,
                   userActed, netOk, timerEarly>>
    /\ UNCHANGED <<wrote, fetchedFrom>>
    /\ UNCHANGED serverVars

\* The server handles a PUT.
ServerPUT(req) ==
    /\ remote' = routePUT(remote, req.request)
    /\ wrote' = IF remote # NoRow /\ remote' = Row(Some(req.request.data))
                THEN Some(req.snapshot)
                ELSE wrote
    /\ inflight' = inflight \ {req}
    /\ UNCHANGED fetchedFrom
    /\ UNCHANGED <<storeVars, boardId, activated, isLoading, get, timer, remote0,
                   userActed, netOk, timerEarly, lastPut, burst>>
    /\ UNCHANGED serverVars

\* Mutant: the catch block schedules the call again.
PutGroupFetchFails_Retries(req) ==
    /\ inflight' = inflight \ {req}
    /\ netOk' = FALSE
    /\ timer' = debounce(timer, [id |-> req.request.id, body |-> req.snapshot])
    /\ UNCHANGED <<storeVars, boardId, activated, isLoading, get, remote,
                   remote0, userActed, timerEarly, lastPut, burst>>
    /\ UNCHANGED <<wrote, fetchedFrom>>
    /\ UNCHANGED serverVars

\* fetch rejects: putGroup catches and logs.
PutGroupFetchFails(req) ==
    /\ inflight' = inflight \ {req}
    /\ netOk' = FALSE
    /\ UNCHANGED <<storeVars, boardId, activated, isLoading, get, timer, remote,
                   remote0, userActed, timerEarly, lastPut, burst>>
    /\ UNCHANGED <<wrote, fetchedFrom>>
    /\ UNCHANGED serverVars

\* The page is loaded again once the requests of the session have been
\* handled or lost: the store and the bridge start anew, the timeout is gone.
Reload ==
    /\ activated
    /\ inflight = {}
    /\ tasks' = << >>
    /\ groups' = << >>
    /\ lastOp' = NoOp
    /\ activated' = FALSE
    /\ isLoading' = TRUE
    /\ get' = [phase |-> "idle", response |-> Undefined]
    /\ timer' = << >>
    /\ timerEarly' = FALSE
    /\ burst' = << >>
    /\ remote0' = remote
    /\ userActed' = FALSE
    /\ netOk' = TRUE
    /\ lastPut' = << >>
    /\ fetchedFrom' = Undefined
    /\ UNCHANGED <<nextId, refsValid, boardId, inflight, remote, wrote>>
    /\ UNCHANGED serverVars

\* A snapshot some earlier session stored for the board
StoredSnapshot == Snapshot(<<[id |-> 1, title |-> <<"c">>, groupId |-> Undefined]>>, << >>)

InitSync ==
    /\ tasks = << >>
    /\ groups = << >>
    /\ nextId = 2
    /\ lastOp = NoOp
    /\ refsValid = TRUE
    /\ boardId \in {"", "b"}
    /\ remote \in {NoRow, Row(Undefined), Row(Some(JSONstringify(StoredSnapshot)))}
    /\ wrote = IF remote = Row(Some(JSONstringify(StoredSnapshot)))
               THEN Some(StoredSnapshot)
               ELSE Undefined
    /\ Unmounted
    /\ ServerIdle

NextSync ==
    \/ UseApiSyncMount
    \/ ServerGET
    \/ GetGroupReturns
    \/ GetGroupFetchFails
    \/ \E task \in {[title |-> <<"c">>]} : UserAddTask(task)
    \/ \E id \in Ids : UserDeleteTask(id)
    \/ Tick
    \/ DebounceTimerFires
    \/ \E req \in inflight : ServerPUT(req)
    \/ \E req \in inflight : PutGroupFetchFails(req)
    \/ Reload

SpecSync == InitSync /\ [][NextSync]_vars

----------------------------------------------------------------------------
(* Actions of the persistence service *)

\* The server handles one request.
ServerCall(req) ==
    LET r == handle(revision, groupsTable, req) IN
    /\ groupsTable' = r.table
    /\ lastCall' = [req |-> Some(req), status |-> r.status, body |-> r.body,
                    pre |-> Some(groupsTable)]
    /\ UNCHANGED <<revision, storeVars, syncVars>>

InitServer ==
    /\ tasks = << >>
    /\ groups = << >>
    /\ nextId = 1
    /\ lastOp = NoOp
    /\ refsValid = TRUE
    /\ boardId = ""
    /\ remote = NoRow
    /\ wrote = Undefined
    /\ Unmounted
    /\ groupsTable = [id \in BoardIds |-> NoRow]
    /\ revision \in Revisions
    /\ lastCall = NoCall

NextServer == \E req \in Requests : ServerCall(req)

SpecServer == InitServer /\ [][NextServer]_vars

----------------------------------------------------------------------------
(* Claims about the field-owning store, checked under Spec *)

\* Every Task of snapshot s whose groupId is set names a Group of s.
NoDanglingGroupId(s) ==
    \A i \in 1..Len(s.tasks) :
        field(s.tasks[i], "groupId") # Undefined =>
            hasId(s.groups, field(s.tasks[i], "groupId")[1])

\* C1 as stated: in every state reachable by any sequence of addTask,
\* updateTask, deleteTask, addGroup, updateGroup, deleteGroup and setTaskGroup
\* calls, every Task whose groupId is set names a Group present in the store.
C1_NoDanglingGroupId_AnyCalls == NoDanglingGroupId(State)

\* C1 amended: when every group id passed to addTask, setTaskGroup or
\* updateTask named a Group present at the time of the call, every Task whose
\* groupId is set names a present Group, in the store and in every snapshot the
\* last operation handed to the listeners.
C1_NoDanglingGroupId_ValidCalls ==
    refsValid =>
        /\ NoDanglingGroupId(State)
        /\ \A k \in 1..Len(lastOp.notified) : NoDanglingGroupId(lastOp.notified[k])

\* C1 witness: valid calls only, a deleteGroup whose cascade ungrouped a Task
\* while another Task still names a present Group.
C1_Witness ==
    /\ refsValid
    /\ lastOp.op = "deleteGroup"
    /\ ~lastOp.threw
    /\ Len(lastOp.notified) >= 2
    /\ \E i \in 1..Len(tasks) : tasks[i].groupId # Undefined

\* C5: deleteGroup(G) on a present Group G does not throw and leaves G absent,
\* every Task that referenced G without groupId, every other Task's groupId
\* unchanged, and the sequence of Task ids unchanged.
C5_DeleteGroupCascade ==
    (lastOp.op = "deleteGroup" /\ hasId(lastOp.pre[1].groups, lastOp.id[1])) =>
        LET id == lastOp.id[1]
            pre == lastOp.pre[1]
        IN  /\ ~lastOp.threw
            /\ ~hasId(groups, id)
            /\ Len(tasks) = Len(pre.tasks)
            /\ \A i \in 1..Len(pre.tasks) :
                /\ tasks[i].id = pre.tasks[i].id
                /\ tasks[i].groupId =
                      IF pre.tasks[i].groupId = Some(id)
                      THEN Undefined
                      ELSE pre.tasks[i].groupId

\* C5 witness: the end-to-end case, addGroup(Home), addTask(Clean, Home's id),
\* deleteGroup(Home's id): one ungrouped Task and no Group.
C5_Witness ==
    /\ lastOp.op = "deleteGroup"
    /\ ~lastOp.threw
    /\ Len(lastOp.pre[1].groups) = 1
    /\ Len(lastOp.pre[1].tasks) = 1
    /\ lastOp.pre[1].tasks[1].groupId = Some(lastOp.id[1])
    /\ Len(tasks) = 1
    /\ tasks[1].groupId = Undefined
    /\ groups = << >>

\* C8: no two Tasks of the store share an id and no two Groups share an id.
UniqueIds(seq) == \A i, j \in 1..Len(seq) : seq[i].id = seq[j].id => i = j

C8_UniqueIds == UniqueIds(tasks) /\ UniqueIds(groups)

\* C8 witness: two Tasks and a Group in the store after an entity was deleted.
C8_Witness ==
    /\ Len(tasks) = 2
    /\ Len(groups) >= 1
    /\ nextId > Len(tasks) + Len(groups) + 1
    /\ lastOp.op = "addTask"

\* C17: addTask with a title that is empty once trimmed changes neither tasks
\* nor groups and does not throw; with any other title it makes tasks one
\* longer, keeps the Tasks that were there in place, and the Task appended
\* last carries exactly the title that was given.
C17_AddTaskValidation ==
    [][\A task \in TaskInputs, groupId \in OptIds :
         AddTask(task, groupId) =>
            IF trim(task.title) = << >>
            THEN /\ tasks' = tasks
                 /\ groups' = groups
                 /\ ~lastOp'.threw
            ELSE /\ Len(tasks') = Len(tasks) + 1
                 /\ SubSeq(tasks', 1, Len(tasks)) = tasks
                 /\ tasks'[Len(tasks')].title = task.title
                 /\ ~lastOp'.threw]_vars

\* C17 witness: a Task whose title has leading whitespace was added, and the
\* addTask after it, with a blank title, was ignored.
C17_Witness ==
    /\ lastOp.op = "addTask"
    /\ lastOp.notified = << >>
    /\ ~lastOp.threw
    /\ Len(tasks) = 1
    /\ tasks[1].title = <<" ", "c">>

\* The operation whose result is r threw and its result is the store it was
\* called on.
Rejected(r) == r.threw /\ r.state = State /\ r.notified = << >>

\* Every call with an id that is not in the store is rejected.
AbsentIdRejected ==
    /\ \A id \in Ids : ~hasId(tasks, id) =>
        /\ \A fields \in TaskUpdates : Rejected(updateTask(State, id, fields))
        /\ Rejected(deleteTask(State, id))
        /\ Rejected(deleteTaskL(State, id))
        /\ \A groupId \in OptIds : Rejected(setTaskGroup(State, id, groupId))
    /\ \A id \in Ids : ~hasId(groups, id) =>
        /\ \A fields \in GroupUpdates : Rejected(updateGroup(State, id, fields))
        /\ Rejected(deleteGroup(State, id))
        /\ Rejected(deleteGroupL(State, id))
        /\ \A taskId \in Ids :
            /\ Rejected(addTaskToGroup(State, taskId, id))
            /\ Rejected(removeTaskFromGroup(State, taskId, id))

\* C18: updateTask, deleteTask and setTaskGroup with a task id that is not in
\* the store, and updateGroup, deleteGroup, addTaskToGroup and
\* removeTaskFromGroup with a group id that is not in the store, throw the
\* assertion error and leave tasks and groups as they were: in every state
\* each such call is rejected, and every step that ended in the assertion
\* error left tasks and groups unchanged.
C18_AbsentIdThrows ==
    /\ []AbsentIdRejected
    /\ [][lastOp'.threw => (tasks' = tasks /\ groups' = groups)]_vars

\* C18 witness: with a Task and a Group in the store, deleteTask was called
\* with an id that is not a Task's and threw.
C18_Witness ==
    /\ lastOp.op = "deleteTask"
    /\ lastOp.threw
    /\ lastOp.pre = Some(State)
    /\ tasks # << >>
    /\ groups # << >>

\* In the sequence after, the entity with this id has the supplied fields and,
\* for the rest, what it had in the sequence before; its id and its place are
\* the same; every other entity is as it was.
OnlySuppliedChanged(before, after, id, fields) ==
    /\ Len(after) = Len(before)
    /\ \A i \in 1..Len(before) :
        IF before[i].id = id
        THEN /\ after[i].id = id
             /\ DOMAIN after[i] = DOMAIN before[i] \cup DOMAIN fields
             /\ \A k \in DOMAIN fields : after[i][k] = fields[k]
             /\ \A k \in DOMAIN before[i] \ DOMAIN fields : after[i][k] = before[i][k]
        ELSE after[i] = before[i]

\* updateTask and updateGroup called on the current store with the id of an
\* entity it holds return a store in which only the supplied fields of that
\* entity differ.
UpdateMergesOnlySupplied ==
    /\ \A id \in Ids, fields \in TaskUpdates : hasId(tasks, id) =>
        LET r == updateTask(State, id, fields) IN
        /\ ~r.threw
        /\ OnlySuppliedChanged(tasks, r.state.tasks, id, fields)
        /\ r.state.groups = groups
    /\ \A id \in Ids, fields \in GroupUpdates : hasId(groups, id) =>
        LET r == updateGroup(State, id, fields) IN
        /\ ~r.threw
        /\ OnlySuppliedChanged(groups, r.state.groups, id, fields)
        /\ r.state.tasks = tasks

\* C19: updateTask on a Task of the store changes only the supplied fields of
\* that Task (its id, its other fields and its place stay, every other Task
\* and every Group stays); updateGroup does the same for a Group and leaves
\* every Task as it was. Every updateTask step keeps the ids of the Tasks in
\* order and the Groups, every updateGroup step the ids of the Groups in order
\* and the Tasks.
C19_UpdateFrame ==
    /\ []UpdateMergesOnlySupplied
    /\ [][/\ lastOp'.op = "updateTask" =>
                /\ groups' = groups
                /\ Len(tasks') = Len(tasks)
                /\ \A i \in 1..Len(tasks) : tasks'[i].id = tasks[i].id
          /\ lastOp'.op = "updateGroup" =>
                /\ tasks' = tasks
                /\ Len(groups') = Len(groups)
                /\ \A i \in 1..Len(groups) : groups'[i].id = groups[i].id]_vars

\* C19 witness: the title of the second Task was changed while it keeps its
\* group.
C19_Witness ==
    /\ lastOp.op = "updateTask"
    /\ ~lastOp.threw
    /\ Len(tasks) = 2
    /\ tasks[1].title = <<" ", "c">>
    /\ tasks[2].title = << >>
    /\ tasks[2].groupId # Undefined

\* C20: every Task of the store has a non-empty title, in every state
\* reachable by store operations, updateTask of the title included.
C20_NonEmptyTitle == \A i \in 1..Len(tasks) : tasks[i].title # << >>

\* The ids of a sequence of entities, in order
idsOf(seq) == [i \in 1..Len(seq) |-> seq[i].id]

\* after is before with the one element whose id is id taken out and the
\* others, unchanged unless ids only are compared, in their order.
RemovedOne(before, after, id) ==
    \E k \in 1..Len(before) :
        /\ before[k] = id
        /\ after = SubSeq(before, 1, k - 1) \o SubSeq(before, k + 1, Len(before))

\* C31: addTask and addGroup append at the end; updateTask, updateGroup and
\* setTaskGroup keep every element at its position; deleteTask and deleteGroup
\* take out exactly the named element and keep the others in their order.
C31_OrderPreserved ==
    [][/\ lastOp'.op = "addTask" =>
            /\ idsOf(groups') = idsOf(groups)
            /\ \/ tasks' = tasks
               \/ /\ Len(tasks') = Len(tasks) + 1
                  /\ SubSeq(tasks', 1, Len(tasks)) = tasks
       /\ lastOp'.op = "addGroup" =>
            /\ tasks' = tasks
            /\ Len(groups') = Len(groups) + 1
            /\ SubSeq(groups', 1, Len(groups)) = groups
       /\ lastOp'.op \in {"updateTask", "updateGroup", "setTaskGroup"} =>
            /\ idsOf(tasks') = idsOf(tasks)
            /\ idsOf(groups') = idsOf(groups)
       /\ lastOp'.op = "deleteTask" =>
            /\ groups' = groups
            /\ IF lastOp'.threw
               THEN tasks' = tasks
               ELSE /\ RemovedOne(idsOf(tasks), idsOf(tasks'), lastOp'.id[1])
                    /\ \A i \in 1..Len(tasks') : \E k \in 1..Len(tasks) : tasks'[i] = tasks[k]
       /\ lastOp'.op = "deleteGroup" =>
            /\ idsOf(tasks') = idsOf(tasks)
            /\ IF lastOp'.threw
               THEN groups' = groups
               ELSE /\ RemovedOne(idsOf(groups), idsOf(groups'), lastOp'.id[1])
                    /\ \A i \in 1..Len(groups') : \E k \in 1..Len(groups) : groups'[i] = groups[k]
      ]_vars

\* C31 witness: the first of three Tasks was deleted and the other two are in
\* the store in their order.
C31_Witness ==
    /\ lastOp.op = "deleteTask"
    /\ ~lastOp.threw
    /\ Len(lastOp.pre[1].tasks) = 3
    /\ lastOp.pre[1].tasks[1].id = lastOp.id[1]
    /\ tasks = Tail(lastOp.pre[1].tasks)

\* A snapshot in which two Tasks share an id and two Groups share an id
DuplicateIds ==
    Snapshot(<<[id |-> 1, title |-> <<"c">>, groupId |-> Undefined],
               [id |-> 1, title |-> <<"c">>, groupId |-> Undefined]>>,
             <<[id |-> 2, name |-> <<"h">>], [id |-> 2, name |-> <<"h">>]>>)

\* C37: the assertion newLength = oldLength - 1 of deleteTask and deleteGroup
\* does not fail on a store reached from the empty store by store operations
\* when the id is in the store: filter takes out exactly one element, the
\* call does not throw, and a delete that threw was given an id that was not
\* in the store.  It does fail once initialize has installed a snapshot with
\* duplicate ids.
C37_LengthAssertionHolds ==
    /\ \A id \in Ids : hasId(tasks, id) =>
        /\ Len(filterOutId(tasks, id)) = Len(tasks) - 1
        /\ ~deleteTask(State, id).threw
    /\ \A id \in Ids : hasId(groups, id) =>
        /\ Len(filterOutId(groups, id)) = Len(groups) - 1
        /\ ~deleteGroup(State, id).threw
    /\ (lastOp.op = "deleteTask" /\ lastOp.threw) => ~hasId(lastOp.pre[1].tasks, lastOp.id[1])
    /\ (lastOp.op = "deleteGroup" /\ lastOp.threw) => ~hasId(lastOp.pre[1].groups, lastOp.id[1])
    /\ LET installed == initialize(State, DuplicateIds).state IN
        /\ deleteTask(installed, 1).threw
        /\ deleteGroup(installed, 2).threw

\* C37 witness: deleteGroup took one of two Groups out of a store that also
\* holds a Task, after an entity had been deleted before.
C37_Witness ==
    /\ lastOp.op = "deleteGroup"
    /\ ~lastOp.threw
    /\ Len(lastOp.pre[1].groups) = 2
    /\ Len(groups) = 1
    /\ Len(tasks) = 1
    /\ nextId = MaxIds + 1

\* C27: the listeners of the store see every operation as one transition:
\* the last operation notified them at most once, and with the store it
\* left, never with a store in which the cascade of deleteGroup is partly
\* applied.
C27_AtomicOperations ==
    /\ Len(lastOp.notified) <= 1
    /\ \A k \in 1..Len(lastOp.notified) : lastOp.notified[k] = State

----------------------------------------------------------------------------
(* Claims about the list-owning store, checked under SpecList *)

\* Every task id in a Group's taskIds of snapshot s names a Task of s.
NoDanglingTaskIds(s) ==
    \A i \in 1..Len(s.groups) :
        \A k \in 1..Len(s.groups[i].taskIds) : hasId(s.tasks, s.groups[i].taskIds[k])

\* C2: in every state reachable by any sequence of addTask, updateTask,
\* deleteTask, addGroup, updateGroup, deleteGroup, addTaskToGroup and
\* removeTaskFromGroup calls, every task id listed in a Group's taskIds names
\* a Task present in the store.
C2_NoDanglingTaskIds == NoDanglingTaskIds(State)

\* C6: when Task t is the only member of Group G, deleteTask(t) ends in a
\* state where G is absent from groups.
C6_LastMemberDeletesGroup ==
    (lastOp.op = "deleteTask" /\ hasId(lastOp.pre[1].tasks, lastOp.id[1])) =>
        \A i \in 1..Len(lastOp.pre[1].groups) :
            lastOp.pre[1].groups[i].taskIds = <<lastOp.id[1]>> =>
                ~hasId(groups, lastOp.pre[1].groups[i].id)

\* C7: after deleteTask(t) on a present Task t, t is absent from tasks and
\* from every Group's taskIds, and every Group that keeps members lists
\* exactly its other members, in their original order.
C7_DeleteTaskDetaches ==
    (lastOp.op = "deleteTask" /\ hasId(lastOp.pre[1].tasks, lastOp.id[1])) =>
        LET t == lastOp.id[1]
            pre == lastOp.pre[1]
        IN  /\ ~lastOp.threw
            /\ ~hasId(tasks, t)
            /\ \A i \in 1..Len(groups) : ~includes(groups[i].taskIds, t)
            /\ \A i \in 1..Len(pre.groups) :
                withoutTask(pre.groups[i].taskIds, t) # << >> =>
                    \E j \in 1..Len(groups) :
                        /\ groups[j].id = pre.groups[i].id
                        /\ groups[j].taskIds = withoutTask(pre.groups[i].taskIds, t)

\* C7 witness: a Group listed three Tasks, the middle one was deleted, and the
\* Group lists the other two in their order.
C7_Witness ==
    /\ lastOp.op = "deleteTask"
    /\ ~lastOp.threw
    /\ \E i \in 1..Len(lastOp.pre[1].groups) :
        LET taskIds == lastOp.pre[1].groups[i].taskIds IN
        /\ Len(taskIds) = 3
        /\ taskIds[2] = lastOp.id[1]
        /\ taskIds[1] # taskIds[3]
        /\ \E j \in 1..Len(groups) : groups[j].taskIds = <<taskIds[1], taskIds[3]>>

\* C23: for a Group g of the store and any task id t, a second
\* removeTaskFromGroup(t, g) leaves every Group's taskIds as the first left
\* them, and when g does not list t the first leaves them as they were.
C23_RemoveIdempotent ==
    \A t \in Ids, g \in Ids : hasId(groups, g) =>
        LET first == removeTaskFromGroup(State, t, g)
            second == removeTaskFromGroup(first.state, t, g)
            listed == \E i \in 1..Len(groups) :
                        groups[i].id = g /\ includes(groups[i].taskIds, t)
        IN  /\ ~first.threw
            /\ ~second.threw
            /\ second.state.groups = first.state.groups
            /\ ~listed => first.state.groups = groups

\* C23 witness: removeTaskFromGroup has run on a Group that still lists two
\* Tasks while a third Task is in the store, so that the calls compared remove
\* a listed id and an id that is not listed.
C23_Witness ==
    /\ lastOp.op = "removeTaskFromGroup"
    /\ ~lastOp.threw
    /\ Len(groups) = 1
    /\ Len(groups[1].taskIds) = 2
    /\ \E i \in 1..Len(tasks) : ~includes(groups[1].taskIds, tasks[i].id)

\* No Group lists a task id twice.
NoDuplicateTaskIds ==
    \A i \in 1..Len(groups) :
        \A k, l \in 1..Len(groups[i].taskIds) :
            groups[i].taskIds[k] = groups[i].taskIds[l] => k = l

\* C24: addTaskToGroup(t, g) for a t that g lists leaves g's taskIds (and
\* every other Group) as they were, and no Group of a reachable state lists a
\* task id twice.
C24_AddIdempotentNoDuplicates ==
    /\ NoDuplicateTaskIds
    /\ \A i \in 1..Len(groups) :
        \A k \in 1..Len(groups[i].taskIds) :
            LET r == addTaskToGroup(State, groups[i].taskIds[k], groups[i].id) IN
            /\ ~r.threw
            /\ r.state.groups = groups

\* C24 witness: addTaskToGroup has run and the Group lists three Tasks.
C24_Witness ==
    /\ lastOp.op = "addTaskToGroup"
    /\ ~lastOp.threw
    /\ Len(groups) = 1
    /\ Len(groups[1].taskIds) = 3

C36_OneGroupPerTask ==
    \A i, j \in 1..Len(groups) :
        \A k \in 1..Len(groups[i].taskIds) :
            includes(groups[j].taskIds, groups[i].taskIds[k]) => i = j

\* C28: no operation modifies a record of an earlier snapshot: the snapshot a
\* listener kept from before deleteTask, deleteGroup, addTaskToGroup or
\* removeTaskFromGroup reads, once the operation has run, what the store held
\* before it.
C28_CopyOnWrite ==
    [][(lastOp'.pre # Undefined /\ (tasks' # tasks \/ groups' # groups)) =>
            lastOp'.pre = Some(State)]_vars

----------------------------------------------------------------------------
(* Claims about the sync bridge, checked under SpecSync *)

EmptyBlob == JSONstringify(Snapshot(<< >>, << >>))

\* C3: no PUT is caused by a snapshot the bridge observed before the initial
\* load completed, and every PUT is dispatched after the initial GET completed.
C3_LoadBeforeWrite ==
    lastPut # << >> => (~lastPut[1].early /\ ~lastPut[1].loading)

\* C4: when the remote row held a non-empty snapshot at the start and the user
\* performed no store operation, the remote blob is never the default empty
\* snapshot.
C4_RemoteNotClobbered ==
    (/\ remote0 # NoRow
     /\ remote0[1].data # Undefined
     /\ remote0[1].data[1] # EmptyBlob
     /\ ~userActed)
        => remote # Row(Some(EmptyBlob))

\* C9: in a burst of changes made after the load, each less than DebounceMs
\* after the one before, no PUT is dispatched while the last change is younger
\* than DebounceMs (the pending timeout is due exactly DebounceMs after it and
\* holds the current snapshot), and once that time has passed exactly one PUT
\* has been dispatched, DebounceMs after the last change, with the snapshot
\* that change produced.
C9_DebounceCoalescing ==
    burst # << >> =>
        IF timer # << >>
        THEN /\ burst[1].puts = << >>
             /\ timer[1].remaining = DebounceMs - burst[1].age
             /\ timer[1].args.body = State
        ELSE /\ burst[1].puts = <<DebounceMs>>
             /\ burst[1].age = DebounceMs
             /\ lastPut # << >>
             /\ lastPut[1].data = JSONstringify(State)

\* C9 witness: changes at 0, 200 and 500 ms and one PUT, 1000 ms after the
\* last of them.
C9_Witness ==
    /\ burst # << >>
    /\ burst[1].gaps = <<200, 300>>
    /\ burst[1].puts = <<DebounceMs>>
    /\ timer = << >>
    /\ Len(tasks) = 1

\* C21: a PUT that fails is not retried.  A request is dispatched only by the
\* timeout callback, one request per firing, which leaves no timeout set; the
\* end of a request, lost or answered, sets no timeout and dispatches nothing;
\* and a change the user makes after a fetch has failed does not throw and
\* sets the timeout for the snapshot it produced.
C21_FailedPutNotRetried ==
    [][/\ ~(inflight' \subseteq inflight) =>
            /\ TimerDue
            /\ timer' = << >>
            /\ inflight' = inflight \cup
                    {[request |-> putGroup(timer[1].args.id, timer[1].args.body),
                      snapshot |-> timer[1].args.body]}
       /\ (inflight' \subseteq inflight /\ inflight' # inflight) =>
            /\ Cardinality(inflight') = Cardinality(inflight) - 1
            /\ timer' = timer
            /\ lastPut' = lastPut
            /\ tasks' = tasks
            /\ groups' = groups
       /\ (~netOk /\ lastOp'.op \in {"addTask", "deleteTask"} /\ tasks' # tasks) =>
            /\ ~lastOp'.threw
            /\ timer' = <<[remaining |-> DebounceMs,
                           args |-> [id |-> boardId,
                                     body |-> [tasks |-> tasks', groups |-> groups']]]>>]_vars

\* C21 witness: the snapshot of the board was loaded, a PUT of this session
\* was lost, no request is in flight and no PUT was dispatched since the user
\* last added a Task, whose snapshot waits in the timeout.
C21_Witness ==
    /\ ~netOk
    /\ hasId(tasks, 1)
    /\ inflight = {}
    /\ lastPut # << >>
    /\ lastOp.op = "addTask"
    /\ timer # << >>
    /\ timer[1].args.body = State
    /\ lastPut[1].data # JSONstringify(State)

\* Snapshots handed to initialize: an empty one, the stored one, and one with
\* a Group and a Task in it.
InitializeInputs ==
    { Snapshot(<< >>, << >>),
      StoredSnapshot,
      Snapshot(<<[id |-> 3, title |-> <<"c">>, groupId |-> Some(4)]>>,
               <<[id |-> 4, name |-> <<"h">>]>>) }

\* initialize called on the current store returns the snapshot's tasks and
\* groups.
InitializeReplaces ==
    \A data \in InitializeInputs :
        LET r == initialize(State, data) IN
        /\ ~r.threw
        /\ r.state.tasks = data.tasks
        /\ r.state.groups = data.groups
        /\ r.notified = <<Snapshot(data.tasks, data.groups)>>

\* C25: initialize(snapshot) leaves tasks and groups equal to the snapshot's,
\* whatever the store held: on every reachable store initialize returns the
\* snapshot's tasks and groups, and the step in which the bridge calls it
\* leaves the store with the tasks and groups of the data getGroup returned.
C25_InitializeReplaces ==
    /\ []InitializeReplaces
    /\ [][(get.phase = "replied" /\ get'.phase = "done" /\ lastOp'.op = "initialize") =>
            LET data == getGroup(get.response[1]) IN
            /\ data # Undefined
            /\ tasks' = data[1].tasks
            /\ groups' = data[1].groups]_vars

\* C25 witness: the bridge has called initialize with a snapshot of two Tasks
\* and the store holds them.
C25_Witness ==
    /\ lastOp.op = "initialize"
    /\ ~lastOp.threw
    /\ Len(tasks) = 2
    /\ lastOp.notified = <<State>>

\* The pending timeout holds the board id and the store as it is now.
PendingIsCurrent ==
    timer # << >> =>
        /\ timer[1].args.id = boardId
        /\ timer[1].args.body = State

\* C29: every PUT carries the snapshot that is current when the timeout
\* fires: the pending timeout always holds the current store, so the
\* snapshots of earlier changes in the window are dropped with the timeouts
\* they were captured by, and the request a firing dispatches is the JSON of
\* the store at that instant.
C29_PutCarriesCurrentSnapshot ==
    /\ []PendingIsCurrent
    /\ [][~(inflight' \subseteq inflight) =>
            /\ tasks' = tasks
            /\ groups' = groups
            /\ \A req \in inflight' \ inflight :
                /\ req.snapshot = State
                /\ req.request = putGroup(boardId, State)
            /\ lastPut' # << >>
            /\ lastPut'[1].data = JSONstringify(State)]_vars

\* C29 witness: two Tasks were added within one window, the timeout has fired
\* and the one PUT in flight carries the store with both.
C29_Witness ==
    /\ burst # << >>
    /\ Len(burst[1].gaps) = 1
    /\ burst[1].puts # << >>
    /\ timer = << >>
    /\ Len(tasks) = 2
    /\ lastOp.op = "addTask"
    /\ inflight = {[request |-> putGroup(boardId, State), snapshot |-> State]}

\* C30: at most one flush is pending at any time; a store change the bridge
\* observes leaves exactly one timeout, due DebounceMs later, whether or not
\* one was pending; and a PUT is dispatched only when that timeout is due,
\* which for a change made by the user is DebounceMs after the change.
C30_OnePendingFlush ==
    /\ [](Len(timer) <= 1)
    /\ [][/\ (activated' /\ boardId # "" /\ (tasks' # tasks \/ groups' # groups)) =>
                /\ Len(timer') = 1
                /\ timer'[1].remaining = DebounceMs
          /\ ~(inflight' \subseteq inflight) =>
                /\ timer # << >>
                /\ timer[1].remaining = 0
                /\ burst # << >> => burst[1].age = DebounceMs]_vars

\* C30 witness: a change made 500 ms after the one before, while the flush of
\* that one was pending, left one timeout that is due DebounceMs later.
C30_Witness ==
    /\ burst # << >>
    /\ burst[1].gaps = <<500>>
    /\ burst[1].age = 0
    /\ burst[1].puts = << >>
    /\ Len(timer) = 1
    /\ timer[1].remaining = DebounceMs

\* C32: every activation ends its loading state.  The GET is sent by the
\* mount or never, and isLoading is cleared only when loadGroup resumes; so
\* once the bridge has mounted and no GET is outstanding (its result was
\* handled, or none was sent because the board id is empty) loading is over.
C32_LoadingEnds ==
    (activated /\ get.phase \in {"idle", "done"}) => ~isLoading

\* C33: once every PUT that was dispatched for the board id has been
\* processed by the server (none was lost, and the record exists), the blob
\* the server holds is the payload of the PUT that was dispatched last.
C33_LastDispatchedWins ==
    (/\ inflight = {}
     /\ timer = << >>
     /\ netOk
     /\ remote # NoRow
     /\ lastPut # << >>) => remote = Row(Some(lastPut[1].data))

\* C34: activation alone causes a write.  With a non-empty board id a
\* timeout is pending or a PUT was dispatched from the mount on; and when the
\* load is over, the user has changed nothing and no timeout is pending, the
\* PUT dispatched last carries the snapshot that was loaded, or the empty
\* store when the load gave no data or failed.
C34_ActivationWrites ==
    (activated /\ boardId # "") =>
        /\ timer # << >> \/ lastPut # << >>
        /\ (~userActed /\ get.phase = "done" /\ timer = << >>) =>
            /\ lastPut # << >>
            /\ lastPut[1].data = JSONstringify(State)
            /\ IF lastOp.op = "initialize"
               THEN /\ fetchedFrom # Undefined
                    /\ lastPut[1].data = JSONstringify(fetchedFrom[1])
               ELSE lastPut[1].data = EmptyBlob

\* C34 witness: the stored snapshot was loaded, the user did nothing, and the
\* one PUT of the activation, carrying that snapshot, has reached the server.
C34_Witness ==
    /\ activated
    /\ ~userActed
    /\ lastOp.op = "initialize"
    /\ tasks # << >>
    /\ timer = << >>
    /\ inflight = {}
    /\ lastPut # << >>
    /\ ~lastPut[1].early
    /\ lastPut[1].data = JSONstringify(State)
    /\ remote = Row(Some(lastPut[1].data))

\* Nothing is pending: the load is over, no timeout is set and every PUT that
\* was dispatched has been handled.
Quiescent ==
    /\ activated
    /\ get.phase = "done"
    /\ timer = << >>
    /\ inflight = {}

\* C10: for a non-empty board id, once the store operations have stopped and
\* every request and response has been delivered, the blob the remote service
\* stores for the board id is the serialization of the store's snapshot, also
\* for a board id that had no record before the session.
C10_EventualConsistency ==
    (boardId # "" /\ netOk /\ Quiescent) => remote = Row(Some(JSONstringify(State)))

\* Two sequences of Tasks or of Groups hold the same entities: the same ids
\* in the same order, and every property reads the same in both (a property
\* that is absent reads undefined).
SameEntities(a, b) ==
    /\ Len(a) = Len(b)
    /\ \A i \in 1..Len(a) :
        /\ a[i].id = b[i].id
        /\ \A f \in (DOMAIN a[i] \cup DOMAIN b[i]) \ {"id"} :
            field(a[i], f) = field(b[i], f)

LoadedNothing == get.phase = "done" /\ lastOp.op = "none"

\* C15: when the initial GET yields no data (no row, a row without data, an
\* answer that is not 200) or fails, getGroup returns null instead of
\* throwing, loading ends, and tasks and groups are both still empty.
C15_LoadWithoutData ==
    /\ \A status \in {200, 401, 500} : getGroup([status |-> status, row |-> NoRow]) = Undefined
    /\ getGroup([status |-> 200, row |-> Row(Undefined)]) = Undefined
    /\ LoadedNothing =>
        /\ ~isLoading
        /\ tasks = << >>
        /\ groups = << >>
        /\ ~lastOp.threw

\* C15 witnesses: the GET of an unknown board was answered and delivered; or
\* the fetch failed while the row holds a snapshot.
C15_Witness ==
    /\ LoadedNothing
    /\ \/ remote = NoRow /\ netOk
       \/ remote = Row(Some(JSONstringify(StoredSnapshot))) /\ ~netOk

\* C16: with an empty board id the bridge never issues a GET (no request is
\* sent, answered or delivered) and never issues a PUT (no debounced call is
\* pending, no request is in flight, none was ever sent).
C16_NoBoardNoCalls ==
    boardId = "" =>
        /\ get.phase = "idle"
        /\ timer = << >>
        /\ inflight = {}
        /\ lastPut = << >>
        /\ remote = remote0

\* C16 witness: App has rendered, so both effects have run, with an empty
\* board id.
C16_Witness == boardId = "" /\ activated /\ lastOp = NoOp /\ tasks = << >>

----------------------------------------------------------------------------
(* Claims about the persistence service, checked under SpecServer *)

\* A PUT /api/groups that carries an id, a blob and the configured credential
ValidPut(req) ==
    /\ req.route = "/api/groups"
    /\ req.method = "PUT"
    /\ req.credential = Some(ServerApiKey)
    /\ req.id # Undefined
    /\ req.data # Undefined

\* The GET /api/groups?id= with the configured credential
GetOf(id) ==
    [route |-> "/api/groups", method |-> "GET", credential |-> Some(ServerApiKey),
     id |-> Some(id), data |-> Undefined]

Succeeded(status) == status \in 200..299

\* C11: after PUT(id, blob) with a valid credential, GET(id) returns blob,
\* whether or not a record for id existed before the call.
C11_PutCreatesOrOverwrites ==
    (lastCall.req # Undefined /\ ValidPut(lastCall.req[1])) =>
        LET req == lastCall.req[1]
            got == handle(revision, groupsTable, GetOf(req.id[1]))
        IN  /\ Succeeded(got.status)
            /\ got.body = <<Row(req.data)>>

\* C12: PUT(id, blob) issued twice in a row with a valid credential succeeds
\* both times and the second leaves the table as the first left it.
C12_PutIdempotent ==
    (lastCall.req # Undefined /\ ValidPut(lastCall.req[1])) =>
        LET again == handle(revision, groupsTable, lastCall.req[1]) IN
        /\ Succeeded(lastCall.status)
        /\ Succeeded(again.status)
        /\ again.table = groupsTable

\* C14: a call whose credential is not the configured one is answered with
\* 401, returns no stored data and leaves the table as it was, whatever its
\* route, method and other arguments.
C14_Unauthorized ==
    (lastCall.req # Undefined /\ lastCall.req[1].credential # Some(ServerApiKey)) =>
        /\ lastCall.status = 401
        /\ lastCall.body = << >>
        /\ groupsTable = lastCall.pre[1]

\* A POST /api/groups that carries an id and the configured credential
ValidPost(req) ==
    /\ req.route = "/api/groups"
    /\ req.method = "POST"
    /\ req.credential = Some(ServerApiKey)
    /\ req.id # Undefined

\* C22: POST(id) with a valid credential leaves a record without data for id
\* when there was none, and leaves the record of id as it was, its blob
\* included, when there was one; the records of other ids are not touched.
C22_PostReserves ==
    (lastCall.req # Undefined /\ ValidPost(lastCall.req[1])) =>
        LET id == lastCall.req[1].id[1]
            pre == lastCall.pre[1]
        IN  /\ groupsTable[id] = IF pre[id] = NoRow THEN Row(Undefined) ELSE pre[id]
            /\ \A other \in BoardIds \ {id} : groupsTable[other] = pre[other]

\* C22 witness: POST for an id whose record holds a blob, next to an id that
\* has no record.
C22_Witness ==
    /\ lastCall.req # Undefined
    /\ ValidPost(lastCall.req[1])
    /\ lastCall.pre[1][lastCall.req[1].id[1]] \in {Row(Some(blob)) : blob \in Blobs}
    /\ \E other \in BoardIds : groupsTable[other] = NoRow

\* A PUT /api/groups whose body lacks the id, the data or the credential
MalformedPut(req) ==
    /\ req.route = "/api/groups"
    /\ req.method = "PUT"
    /\ (req.id = Undefined \/ req.data = Undefined \/ req.credential = Undefined)

\* C26: a PUT whose body is malformed is answered with a 4xx status and
\* leaves the table as it was.
C26_MalformedPutRejected ==
    (lastCall.req # Undefined /\ MalformedPut(lastCall.req[1])) =>
        /\ lastCall.status \in 400..499
        /\ groupsTable = lastCall.pre[1]

====
